---- MODULE Spec2Model ----
(***************************************************************************)
(* Model of the template builder (static/js/builder.js): the fabric canvas *)
(* scene, the selection and property panel, the undo/redo history and the  *)
(* serialization of the field set.                                         *)
(*                                                                         *)
(* Units.  Positions (left, top) are kept in HALF pixels, because the      *)
(* default placement canvas.width / 2 - width / 2 yields half pixels.      *)
(* Sizes (width, height, the circle's diameter 2 * radius), font sizes and *)
(* scale factors are whole numbers.                                        *)
(***************************************************************************)
EXTENDS Integers, Sequences, FiniteSets, TLC

VARIABLES
  objects,       \* canvas.getObjects(): the scene, in z-order
  bg,            \* canvas.backgroundImage is set
  selected,      \* `selected`: the oid of the active object, 0 for null
  panel,         \* the property panel's geometry inputs
  undoStack,     \* `undoStack`: serialized canvas states
  redoStack,     \* `redoStack`
  fieldCounter,  \* `fieldCounter`
  pending,       \* loadFromJSON calls whose background image is still loading
  sent,          \* body of the most recent save request (its fields)
  fieldList,     \* the entries of the Layer List (#fieldList)
  inflight,      \* save requests not yet handled: "pending", or the outcome
                 \* the network has settled them with
  notes,         \* history variable: the notifications shown so far
  guides,        \* alignment guide lines on the canvas, counted per axis
  existing,      \* history variable: EXISTING_FIELDS, the input of hydration
  commits,       \* history variable: every snapshot saveState has pushed, in order
  zoomLevel,     \* `zoomLevel`, in hundredths
  viewportZoom,  \* canvas.getZoom(), in hundredths
  balance,       \* App.jsx: the wallet's `balance` state, queued updaters applied
  txns,          \* App.jsx: the wallet's `txns` state, newest first
  seenBalance,   \* App.jsx: `balance` as the closures of the latest render see it
  returned,      \* history variable: what the latest deduct call returned
  hist,          \* history variable: the latest committed mutation m, the
                 \* handlers run since, and the number of undo() calls
  onlyCreates,   \* history variable: every handler run so far created a field
  steps          \* number of user events so far

vars == <<objects, bg, selected, panel, undoStack, redoStack, fieldCounter,
          pending, sent, fieldList, inflight, notes, guides, existing,
          commits, zoomLevel, viewportZoom, balance, txns, seenBalance,
          returned, hist, onlyCreates, steps>>

----------------------------------------------------------------------------
(* Bounds of the exploration *)

MaxSteps == 3          \* user events per behaviour
MaxExisting == 2       \* records in EXISTING_FIELDS
HistWindow == 6        \* handler runs remembered in hist
CanvasW == 400         \* width of the template image
CanvasH == 300         \* height of the template image
MaxLongSteps == 52     \* committed edits of the long session
MaxLongIdle == 5       \* handler runs between two edits of the long session
MaxLongUndo == 1       \* undo() calls of the long session
MaxSaves == 2          \* save requests of a session with the network
MaxHydrate == 3        \* records in EXISTING_FIELDS when hydration is explored
MaxDeducts == 11       \* successful deduct calls of a wallet session
MaxAdds == 1           \* addFunds calls of a wallet session

(* Program constants *)

HistoryCap == 50       \* builder.js:495
DefaultFontSize == 32  \* builder.js:77
DefaultImageSize == 150 \* builder.js:98
TextBoxWidth == 200    \* builder.js:81
TextHalfW == 75        \* builder.js:75
TextHalfH == 20        \* builder.js:76
DupOffset == 20        \* builder.js:453
ZoomOne == 100         \* builder.js:9, 542: zoom level 1, in hundredths
ZoomStep == 10         \* builder.js:532, 537: 0.1
ZoomMax == 200         \* builder.js:532: 2
ZoomMin == 30          \* builder.js:537: 0.3
InitialBalance == 100  \* App.jsx:26
GenerationPrice == 5   \* App.jsx:266

----------------------------------------------------------------------------
(* JavaScript helpers *)

Undef == "undefined"

\* c.k || d for a numeric property: absent, undefined or 0 gives d
OrN(c, k, d) == IF k \in DOMAIN c /\ c[k] # 0 THEN c[k] ELSE d

\* c.k || d for a string property: absent, undefined or "" gives d
OrS(c, k, d) == IF k \in DOMAIN c /\ c[k] # "" /\ c[k] # Undef THEN c[k] ELSE d

\* s || d for a string value
StrOr(s, d) == IF s # "" /\ s # Undef THEN s ELSE d

\* n || d for a number
NumOr(n, d) == IF n # 0 THEN n ELSE d

Min(a, b) == IF a < b THEN a ELSE b

\* Math.round of a value held in half pixels (rounds .5 up)
MathRound(h) == (h + 1) \div 2

\* a pixel value in half pixels
Px(n) == 2 * n

SeqRemove(s, i) == SubSeq(s, 1, i - 1) \o SubSeq(s, i + 1, Len(s))

----------------------------------------------------------------------------
(* The session state as one record, so that a handler is an operator from  *)
(* state to state and handlers compose as they call one another.           *)

State == [objects |-> objects, bg |-> bg, selected |-> selected,
          panel |-> panel, undoStack |-> undoStack, redoStack |-> redoStack,
          fieldCounter |-> fieldCounter, pending |-> pending, sent |-> sent,
          fieldList |-> fieldList, inflight |-> inflight, notes |-> notes,
          guides |-> guides, commits |-> commits,
          zoomLevel |-> zoomLevel, viewportZoom |-> viewportZoom]

NoPanel == [shown |-> "none", x |-> 0, y |-> 0, w |-> 0, h |-> 0]

NoGuides == [v |-> 0, h |-> 0]

\* the state before window.onload has run
Fresh == [objects |-> <<>>, bg |-> TRUE, selected |-> 0, panel |-> NoPanel,
          undoStack |-> <<>>, redoStack |-> <<>>, fieldCounter |-> 0,
          pending |-> <<>>, sent |-> <<>>, fieldList |-> <<>>,
          inflight |-> <<>>, notes |-> <<>>, guides |-> NoGuides,
          commits |-> <<>>, zoomLevel |-> ZoomOne, viewportZoom |-> ZoomOne]

Oids(S) == {S.objects[i].oid : i \in 1..Len(S.objects)}

\* a new object: an identity no live reference holds
FreshOid(S) == CHOOSE n \in 1..(Len(S.objects) + 2) :
                 /\ n \notin Oids(S) \cup {S.selected}
                 /\ \A m \in 1..(n - 1) : m \in Oids(S) \cup {S.selected}

IndexOf(S, oid) == CHOOSE i \in 1..Len(S.objects) : S.objects[i].oid = oid

HasObj(S, oid) == \E i \in 1..Len(S.objects) : S.objects[i].oid = oid

Sel(S) == S.objects[IndexOf(S, S.selected)]

\* obj.set(...) on the object with identity oid
SetObj(S, oid, obj) ==
  [S EXCEPT !.objects = [i \in 1..Len(S.objects) |->
      IF S.objects[i].oid = oid THEN obj ELSE S.objects[i]]]

----------------------------------------------------------------------------
(* Font family mapping *)

getFontFamily(token) ==
  CASE token = "default" -> "Arial, sans-serif"
    [] token = "roboto" -> "Roboto, sans-serif"
    [] token = "inter" -> "Inter, sans-serif"
    [] token = "open_sans" -> "Open Sans, sans-serif"
    [] token = "noto_sans" -> "Noto Sans, sans-serif"
    [] token = "times" -> "Times New Roman, serif"
    [] OTHER -> "Arial, sans-serif"

----------------------------------------------------------------------------
(* Selection and property panel *)

\* Math.round(obj.width * obj.scaleX), or Math.round(obj.radius * 2) for a circle
PanelW(o) == IF o.type = "circle" THEN o.diameter ELSE o.width * o.scaleX
PanelH(o) == IF o.type = "circle" THEN o.diameter ELSE o.height * o.scaleY

showTextProperties(S) ==
  [S EXCEPT !.panel = [shown |-> "text", x |-> MathRound(Sel(S).left),
                       y |-> MathRound(Sel(S).top), w |-> 0, h |-> 0]]

showImageProperties(S) ==
  [S EXCEPT !.panel = [shown |-> "image", x |-> MathRound(Sel(S).left),
                       y |-> MathRound(Sel(S).top),
                       w |-> PanelW(Sel(S)), h |-> PanelH(Sel(S))]]

\* obj.fieldData is truthy: the object carries field metadata
HasFieldData(obj) == "fieldData" \in DOMAIN obj

\* canvas.getObjects().filter((obj) => obj.fieldData)
Fields(objs) == SelectSeq(objs, HasFieldData)

showProperties(S) ==
  IF S.selected = 0 \/ ~HasObj(S, S.selected) THEN S
  ELSE IF ~HasFieldData(Sel(S)) THEN S
  ELSE IF Sel(S).fieldData.type = "text" THEN showTextProperties(S)
  ELSE IF Sel(S).fieldData.type = "image" THEN showImageProperties(S)
  ELSE S

hideProperties(S) == [S EXCEPT !.panel = NoPanel]

\* selection:created / selection:updated
handleSelection(S, oid) == showProperties([S EXCEPT !.selected = oid])

\* a selection:cleared handler that leaves the panel as it is
clearSelectionKeepsPanel(S) == [S EXCEPT !.selected = 0]

\* selection:cleared
clearSelection(S) == hideProperties([S EXCEPT !.selected = 0])

----------------------------------------------------------------------------
(* Layer List *)

\* one entry per object: obj.fieldData.name || `Field ${index + 1}`, and the kind
FieldEntry(obj, i) ==
  [name |-> StrOr(obj.fieldData.name, "Field " \o ToString(i)),
   type |-> obj.fieldData.type]

updateFieldList(S) ==
  LET fields == Fields(S.objects)
  IN [S EXCEPT !.fieldList = [i \in 1..Len(fields) |-> FieldEntry(fields[i], i)]]

----------------------------------------------------------------------------
(* The fabric canvas, as builder.js uses it *)

\* canvas.add(obj): fires object:added
canvasAdd(S, o) == updateFieldList([S EXCEPT !.objects = Append(S.objects, o)])

\* canvas.setActiveObject(obj): fires selection:created or selection:updated
setActiveObject(S, oid) == IF S.selected = oid THEN S ELSE handleSelection(S, oid)

\* canvas.discardActiveObject(): fires selection:cleared when there is one
discardActiveObject(S) == IF S.selected = 0 THEN S ELSE clearSelection(S)

\* canvas.remove(obj): fires object:removed; an active object is discarded
canvasRemove(S, oid) ==
  IF ~HasObj(S, oid) THEN S
  ELSE LET T == updateFieldList(
                  [S EXCEPT !.objects = SeqRemove(S.objects, IndexOf(S, oid))])
       IN IF S.selected = oid THEN clearSelection(T) ELSE T

\* what toObject(["fieldData"]) keeps of an object: its properties, not its identity
\* toJSON() without the list of extra properties: fieldData is not written
toObjectWithoutFieldData(o) == [k \in (DOMAIN o) \ {"oid", "fieldData"} |-> o[k]]

toObject(o) == [k \in (DOMAIN o) \ {"oid"} |-> o[k]]

\* canvas.toJSON(["fieldData"]), stringified
toJSON(S) == [objects |-> [i \in 1..Len(S.objects) |-> toObject(S.objects[i])],
              bg |-> S.bg]

----------------------------------------------------------------------------
(* History: saveState *)

\* a snapshot that never evicts
saveStateUnbounded(S) ==
  [S EXCEPT !.undoStack = Append(S.undoStack, toJSON(S)),
            !.redoStack = <<>>,
            !.commits = Append(S.commits, toJSON(S))]

\* a snapshot that, on overflow, drops the entry below the new one
saveStateEvictsNewest(S) ==
  LET pushed == Append(S.undoStack, toJSON(S))
  IN [S EXCEPT !.undoStack = IF Len(pushed) > HistoryCap
                             THEN SeqRemove(pushed, Len(pushed) - 1) ELSE pushed,
               !.redoStack = <<>>,
               !.commits = Append(S.commits, toJSON(S))]

\* a snapshot that keeps the undone states
saveStateKeepsRedo(S) ==
  LET pushed == Append(S.undoStack, toJSON(S))
  IN [S EXCEPT !.undoStack = IF Len(pushed) > HistoryCap THEN Tail(pushed) ELSE pushed,
               !.commits = Append(S.commits, toJSON(S))]

saveState(S) ==
  LET pushed == Append(S.undoStack, toJSON(S))
  IN [S EXCEPT !.undoStack = IF Len(pushed) > HistoryCap THEN Tail(pushed) ELSE pushed,
               !.redoStack = <<>>,
               !.commits = Append(S.commits, toJSON(S))]

----------------------------------------------------------------------------
(* Field creation *)

fillImage == "rgba(255, 255, 255, 0.15)"

\* config.name || config.field_name || `<prefix>_${++fieldCounter}`
NamedByCounter(config) == OrS(config, "name", "") = "" /\ OrS(config, "field_name", "") = ""

FieldName(S, config, prefix) ==
  IF OrS(config, "name", "") # "" THEN config.name
  ELSE IF OrS(config, "field_name", "") # "" THEN config.field_name
  ELSE prefix \o "_" \o ToString(S.fieldCounter + 1)

BumpCounter(S, config) ==
  IF NamedByCounter(config) THEN [S EXCEPT !.fieldCounter = S.fieldCounter + 1] ELSE S

NewText(S, config) ==
  [oid |-> FreshOid(S), type |-> "textbox",
   text |-> OrS(config, "text", "Sample Text"),
   left |-> OrN(config, "x", CanvasW - Px(TextHalfW)),
   top |-> OrN(config, "y", CanvasH - Px(TextHalfH)),
   fontSize |-> OrN(config, "font_size", DefaultFontSize),
   fill |-> OrS(config, "color", "#ffffff"),
   fontFamily |-> getFontFamily(OrS(config, "font_family", "default")),
   textAlign |-> OrS(config, "align", "left"),
   width |-> TextBoxWidth, height |-> 0, diameter |-> 0, scaleX |-> 1, scaleY |-> 1,
   fieldData |-> [name |-> FieldName(S, config, "text"), type |-> "text",
                  align |-> OrS(config, "align", "left"),
                  font_family |-> OrS(config, "font_family", "default")]]

createTextField(S, config) ==
  LET o == NewText(S, config)
  IN saveState(setActiveObject(canvasAdd(BumpCounter(S, config), o), o.oid))

NewImage(S, config) ==
  LET width == OrN(config, "width", DefaultImageSize)
      height == OrN(config, "height", DefaultImageSize)
      shape == OrS(config, "shape", "rect")
      base == [oid |-> FreshOid(S), text |-> Undef, fontSize |-> 0,
               fill |-> fillImage, fontFamily |-> Undef, textAlign |-> Undef,
               scaleX |-> 1, scaleY |-> 1,
               fieldData |-> [name |-> FieldName(S, config, "image"),
                              type |-> "image", shape |-> shape]]
  IN IF shape = "circle"
     THEN \* radius = Math.min(width, height) / 2; left = canvas.width / 2 - radius
          LET d == Min(width, height)
          IN base @@ [type |-> "circle",
                      left |-> OrN(config, "x", CanvasW - d),
                      top |-> OrN(config, "y", CanvasH - d),
                      diameter |-> d, width |-> d, height |-> d]
     ELSE base @@ [type |-> "rect",
                   left |-> OrN(config, "x", CanvasW - width),
                   top |-> OrN(config, "y", CanvasH - height),
                   diameter |-> 0, width |-> width, height |-> height]

createImageField(S, config) ==
  LET o == NewImage(S, config)
  IN saveState(setActiveObject(canvasAdd(BumpCounter(S, config), o), o.oid))

----------------------------------------------------------------------------
(* Hydration *)

\* a persisted record as the config the creation path reads: the same keys,
\* with x and y (pixels) expressed in half pixels
RecToConfig(f) ==
  [k \in DOMAIN f |-> IF k \in {"x", "y"} THEN Px(f[k]) ELSE f[k]]

\* a hydration that takes every record that is not an image for a text
RECURSIVE loadFieldsUnknownAsText(_, _)
loadFieldsUnknownAsText(S, recs) ==
  IF recs = <<>> THEN S
  ELSE LET f == Head(recs)
           T == IF OrS(f, "field_type", "text") = "image"
                THEN createImageField(S, RecToConfig(f))
                ELSE createTextField(S, RecToConfig(f))
       IN loadFieldsUnknownAsText(T, Tail(recs))

RECURSIVE loadFields(_, _)
loadFields(S, recs) ==
  IF recs = <<>> THEN S
  ELSE LET f == Head(recs)
           fieldType == OrS(f, "field_type", "text")
           T == IF fieldType = "text" THEN createTextField(S, RecToConfig(f))
                ELSE IF fieldType = "image" THEN createImageField(S, RecToConfig(f))
                ELSE S
       IN loadFields(T, Tail(recs))

loadExistingFields(S, EXISTING_FIELDS) == updateFieldList(loadFields(S, EXISTING_FIELDS))


----------------------------------------------------------------------------
(* Property update handlers.  v is e.target.value, already parsed where    *)
(* the handler parses it (0 stands for a NaN of parseInt).                 *)

IsText(S) == S.selected # 0 /\ HasFieldData(Sel(S)) /\ Sel(S).fieldData.type = "text"
IsImage(S) == S.selected # 0 /\ HasFieldData(Sel(S)) /\ Sel(S).fieldData.type = "image"

SetName(o, v) == [o EXCEPT !.fieldData.name = v]

\* a rename that does not refresh the Layer List
updateFieldNameNoRefresh(S, v) ==
  IF S.selected = 0 THEN S
  ELSE LET o == Sel(S)  upd == SetName(o, v)
       IN saveState(SetObj(S, S.selected, upd))

updateFieldName(S, v) ==
  IF S.selected = 0 THEN S
  ELSE LET o == Sel(S)  upd == SetName(o, v)
       IN saveState(updateFieldList(SetObj(S, S.selected, upd)))

updateTextContent(S, v) ==
  IF ~IsText(S) THEN S
  ELSE LET o == Sel(S)  upd == [o EXCEPT !.text = v] IN saveState(SetObj(S, S.selected, upd))

\* a font size edit that only checks that something is selected
updateFontSizeAnyKind(S, v) ==
  IF S.selected = 0 THEN S
  ELSE LET o == Sel(S)  upd == [o EXCEPT !.fontSize = NumOr(v, DefaultFontSize)]
       IN saveState(SetObj(S, S.selected, upd))

updateFontSize(S, v) ==
  IF ~IsText(S) THEN S
  ELSE LET o == Sel(S)  upd == [o EXCEPT !.fontSize = NumOr(v, DefaultFontSize)]
       IN saveState(SetObj(S, S.selected, upd))

\* a color edit that commits without applying the value to the field
updateColorIgnoresValue(S, v) ==
  IF ~IsText(S) THEN S ELSE saveState(S)

\* a color edit that pushes no snapshot
updateColorNoSnapshot(S, v) ==
  IF ~IsText(S) THEN S
  ELSE LET o == Sel(S)  upd == [o EXCEPT !.fill = v] IN SetObj(S, S.selected, upd)

updateColor(S, v) ==
  IF ~IsText(S) THEN S
  ELSE LET o == Sel(S)  upd == [o EXCEPT !.fill = v] IN saveState(SetObj(S, S.selected, upd))

updateFontFamily(S, token) ==
  IF ~IsText(S) THEN S
  ELSE LET o == Sel(S)  upd == [o EXCEPT !.fieldData.font_family = token,
                               !.fontFamily = getFontFamily(token)]
       IN saveState(SetObj(S, S.selected, upd))

setAlignment(S, align) ==
  IF ~IsText(S) THEN S
  ELSE LET o == Sel(S)  upd == [o EXCEPT !.textAlign = align, !.fieldData.align = align]
       IN saveState(SetObj(S, S.selected, upd))

\* reads both size inputs of the panel
updateImageSize(S) ==
  IF ~IsImage(S) THEN S
  ELSE LET width == NumOr(S.panel.w, DefaultImageSize)
           height == NumOr(S.panel.h, DefaultImageSize)
           o == Sel(S)  upd == IF o.type = "circle"
                     THEN [o EXCEPT !.diameter = Min(width, height),
                                    !.width = Min(width, height),
                                    !.height = Min(width, height)]
                     ELSE [o EXCEPT !.width = width, !.height = height,
                                    !.scaleX = 1, !.scaleY = 1]
       IN saveState(SetObj(S, S.selected, upd))

\* a shape change that also records the scene with the old object removed
setShapeSnapshotsRemoval(S, shape) ==
  IF ~IsImage(S) THEN S
  ELSE LET oldObj == Sel(S)
           config == [name |-> oldObj.fieldData.name,
                      x |-> oldObj.left,
                      y |-> oldObj.top,
                      width |-> IF oldObj.type = "circle" THEN oldObj.diameter
                                ELSE oldObj.width * oldObj.scaleX,
                      height |-> IF oldObj.type = "circle" THEN oldObj.diameter
                                 ELSE oldObj.height * oldObj.scaleY,
                      shape |-> shape]
       IN createImageField(saveState(canvasRemove(S, oldObj.oid)), config)

setShape(S, shape) ==
  IF ~IsImage(S) THEN S
  ELSE LET oldObj == Sel(S)
           config == [name |-> oldObj.fieldData.name,
                      x |-> oldObj.left,
                      y |-> oldObj.top,
                      width |-> IF oldObj.type = "circle" THEN oldObj.diameter
                                ELSE oldObj.width * oldObj.scaleX,
                      height |-> IF oldObj.type = "circle" THEN oldObj.diameter
                                 ELSE oldObj.height * oldObj.scaleY,
                      shape |-> shape]
       IN createImageField(canvasRemove(S, oldObj.oid), config)

\* reads both position inputs of the panel
updatePosition(S) ==
  IF S.selected = 0 THEN S
  ELSE LET o == Sel(S)  upd == [o EXCEPT !.left = Px(S.panel.x), !.top = Px(S.panel.y)]
       IN saveState(SetObj(S, S.selected, upd))

----------------------------------------------------------------------------
(* Field actions *)

duplicateField(S) ==
  IF S.selected = 0 THEN S
  ELSE LET o == Sel(S)
           config == [name |-> o.fieldData.name \o "_copy",
                      x |-> o.left + Px(DupOffset),
                      y |-> o.top + Px(DupOffset)]
       IN IF o.fieldData.type = "text"
          THEN createTextField(S, config @@
                 [text |-> o.text, font_size |-> o.fontSize, color |-> o.fill,
                  font_family |-> o.fieldData.font_family,
                  align |-> o.fieldData.align])
          ELSE createImageField(S, config @@
                 [width |-> IF o.type = "circle" THEN o.diameter ELSE o.width * o.scaleX,
                  height |-> IF o.type = "circle" THEN o.diameter ELSE o.height * o.scaleY,
                  shape |-> o.fieldData.shape])

\* a delete that removes the topmost object instead of the selected one
deleteFieldRemovesTop(S) ==
  IF S.selected = 0 THEN S
  ELSE saveState(hideProperties(
         [canvasRemove(S, S.objects[Len(S.objects)].oid) EXCEPT !.selected = 0]))

deleteField(S) ==
  IF S.selected = 0 THEN S
  ELSE saveState(hideProperties([canvasRemove(S, S.selected) EXCEPT !.selected = 0]))

----------------------------------------------------------------------------
(* Undo / redo *)

\* identities for the objects enlivened from a snapshot
RECURSIVE Enliven(_, _, _)
Enliven(objs, used, acc) ==
  IF objs = <<>> THEN acc
  ELSE LET n == CHOOSE k \in 1..(Cardinality(used) + 1) :
                  k \notin used /\ \A m \in 1..(k - 1) : m \in used
       IN Enliven(Tail(objs), used \cup {n}, Append(acc, Head(objs) @@ [oid |-> n]))

\* __setupCanvas and the callback of loadState: the enlivened objects are
\* inserted at their indices, then renderAll, updateFieldList, clearSelection
loadCallback(S, state) ==
  LET objs == Enliven(state.objects, Oids(S) \cup ({S.selected} \ {0}), <<>>)
  IN clearSelection(updateFieldList(
       [S EXCEPT !.objects = objs \o S.objects, !.bg = state.bg]))

\* a clear that empties the canvas without discarding the active object
canvasClearKeepsSelection(S) ==
  updateFieldList([S EXCEPT !.objects = <<>>, !.bg = FALSE])

\* canvas.clear(): the active object is discarded, objects and background go
canvasClear(S) ==
  updateFieldList([discardActiveObject(S) EXCEPT !.objects = <<>>, !.bg = FALSE])

\* a restore that adds the snapshot's objects to the canvas as it is
loadStateAppends(S, state) ==
  IF state.bg THEN [S EXCEPT !.pending = Append(S.pending, state)]
  ELSE loadCallback(S, state)

\* canvas.loadFromJSON(state, callback): the canvas is cleared at once; the
\* objects are put back when the snapshot's background image has loaded
loadState(S, state) ==
  LET T == canvasClear(S)
  IN IF state.bg THEN [T EXCEPT !.pending = Append(T.pending, state)]
     ELSE loadCallback(T, state)

\* an undo that drops the popped snapshot instead of keeping it for redo
undoDiscardsState(S) ==
  IF Len(S.undoStack) <= 1 THEN S
  ELSE LET T == [S EXCEPT !.undoStack = SubSeq(S.undoStack, 1, Len(S.undoStack) - 1)]
       IN loadState(T, T.undoStack[Len(T.undoStack)])

\* an undo that stops only at an empty history
undoPopsBaseline(S) ==
  IF Len(S.undoStack) = 0 THEN S
  ELSE LET currentState == S.undoStack[Len(S.undoStack)]
           T == [S EXCEPT !.undoStack = SubSeq(S.undoStack, 1, Len(S.undoStack) - 1),
                          !.redoStack = Append(S.redoStack, currentState)]
       IN IF T.undoStack = <<>> THEN T
          ELSE loadState(T, T.undoStack[Len(T.undoStack)])

undo(S) ==
  IF Len(S.undoStack) <= 1 THEN S
  ELSE LET currentState == S.undoStack[Len(S.undoStack)]
           T == [S EXCEPT !.undoStack = SubSeq(S.undoStack, 1, Len(S.undoStack) - 1),
                          !.redoStack = Append(S.redoStack, currentState)]
       IN loadState(T, T.undoStack[Len(T.undoStack)])

\* a redo that restores the state without putting it back on undoStack
redoForgetsState(S) ==
  IF Len(S.redoStack) = 0 THEN S
  ELSE LET state == S.redoStack[Len(S.redoStack)]
           T == [S EXCEPT !.redoStack = SubSeq(S.redoStack, 1, Len(S.redoStack) - 1)]
       IN loadState(T, state)

\* a redo that, with nothing to redo, reloads the current state
redoReloadsCurrent(S) ==
  IF Len(S.redoStack) = 0
  THEN IF S.undoStack = <<>> THEN S ELSE loadState(S, S.undoStack[Len(S.undoStack)])
  ELSE LET state == S.redoStack[Len(S.redoStack)]
           T == [S EXCEPT !.redoStack = SubSeq(S.redoStack, 1, Len(S.redoStack) - 1),
                          !.undoStack = Append(S.undoStack, state)]
       IN loadState(T, state)

redo(S) ==
  IF Len(S.redoStack) = 0 THEN S
  ELSE LET state == S.redoStack[Len(S.redoStack)]
           T == [S EXCEPT !.redoStack = SubSeq(S.redoStack, 1, Len(S.redoStack) - 1),
                          !.undoStack = Append(S.undoStack, state)]
       IN loadState(T, state)

----------------------------------------------------------------------------
(* Serialization: the records saveTemplate sends *)

\* a record of an image field without its shape
FieldRecordDropsShape(obj) ==
  LET baseData == [field_name |-> obj.fieldData.name,
                   name |-> obj.fieldData.name,
                   field_type |-> obj.fieldData.type,
                   x |-> MathRound(obj.left),
                   y |-> MathRound(obj.top)]
  IN IF obj.fieldData.type = "text"
     THEN baseData @@
          [font_size |-> NumOr(obj.fontSize, DefaultFontSize),
           color |-> StrOr(obj.fill, "#ffffff"),
           font_family |-> OrS(obj.fieldData, "font_family", "default"),
           align |-> OrS(obj.fieldData, "align", StrOr(obj.textAlign, "left"))]
     ELSE baseData @@
          [width |-> IF obj.type = "circle" THEN obj.diameter ELSE obj.width * obj.scaleX,
           height |-> IF obj.type = "circle" THEN obj.diameter ELSE obj.height * obj.scaleY]

FieldRecord(obj) ==
  LET baseData == [field_name |-> obj.fieldData.name,
                   name |-> obj.fieldData.name,
                   field_type |-> obj.fieldData.type,
                   x |-> MathRound(obj.left),
                   y |-> MathRound(obj.top)]
  IN IF obj.fieldData.type = "text"
     THEN baseData @@
          [font_size |-> NumOr(obj.fontSize, DefaultFontSize),
           color |-> StrOr(obj.fill, "#ffffff"),
           font_family |-> OrS(obj.fieldData, "font_family", "default"),
           align |-> OrS(obj.fieldData, "align", StrOr(obj.textAlign, "left"))]
     ELSE baseData @@
          [width |-> IF obj.type = "circle" THEN obj.diameter ELSE obj.width * obj.scaleX,
           height |-> IF obj.type = "circle" THEN obj.diameter ELSE obj.height * obj.scaleY,
           shape |-> OrS(obj.fieldData, "shape", "rect")]

SerializeFields(objs) ==
  LET fields == Fields(objs)
  IN [i \in 1..Len(fields) |-> FieldRecord(fields[i])]

\* a save request the network has not settled yet
Pending == [kind |-> "pending", status |-> Undef, message |-> Undef]

\* a save that also pushes a snapshot
saveTemplateSnapshots(S) ==
  saveState([S EXCEPT !.sent = SerializeFields(S.objects),
                      !.inflight = Append(S.inflight, Pending)])

\* saveTemplate up to the fetch call: the request is on its way
saveTemplate(S) ==
  [S EXCEPT !.sent = SerializeFields(S.objects),
            !.inflight = Append(S.inflight, Pending)]

\* showNotification(message, type)
showNotification(S, message, type, r) ==
  [S EXCEPT !.notes = Append(S.notes, [message |-> message, type |-> type,
                                       response |-> r])]

\* the callbacks with every parsed response taken for a success
saveSettledAlwaysSaved(S, i) ==
  LET r == S.inflight[i]
      T == [S EXCEPT !.inflight = SeqRemove(S.inflight, i)]
  IN IF r.kind = "rejected" \/ r.kind = "unparsable"
     THEN showNotification(T, "Network error. Please try again.", "error", r)
     ELSE showNotification(T, "Template saved successfully!", "success", r)

\* the callbacks of the fetch promise, run for the settled request i:
\* .then(response => response.json()).then(data => ...).catch(error => ...)
saveSettled(S, i) ==
  LET r == S.inflight[i]
      T == [S EXCEPT !.inflight = SeqRemove(S.inflight, i)]
  IN IF r.kind = "rejected" \/ r.kind = "unparsable" \/ r.kind = "null"
     THEN \* fetch or response.json() rejects, or data.status throws on null
          showNotification(T, "Network error. Please try again.", "error", r)
     ELSE IF r.status = "ok"
     THEN showNotification(T, "Template saved successfully!", "success", r)
     ELSE showNotification(T, "Error: " \o StrOr(r.message, "Save failed"), "error", r)


----------------------------------------------------------------------------
(* Inputs of the exploration *)

\* what an earlier session saved: its first toolbar text field, an image
\* field, and a record of an older format without field_type
RText == [field_name |-> "text_1", name |-> "text_1", field_type |-> "text",
          x |-> 50, y |-> 40, font_size |-> 24, color |-> "#ff0000",
          font_family |-> "roboto", align |-> "center"]
RImage == [field_name |-> "photo", name |-> "photo", field_type |-> "image",
           x |-> 10, y |-> 20, width |-> 100, height |-> 60, shape |-> "circle"]
RLegacy == [field_name |-> "date", x |-> 0, y |-> 20]

\* a record of a kind the builder does not know, as an older saveTemplate
\* wrote it for a shape
RUnknown == [field_name |-> "seal", name |-> "seal", field_type |-> "shape",
             x |-> 5, y |-> 5]

Catalogue == <<RText, RImage, RLegacy>>

\* EXISTING_FIELDS: the first n records of the catalogue
ExistingChoices == {SubSeq(Catalogue, 1, n) : n \in 0..Min(MaxExisting, Len(Catalogue))}

\* EXISTING_FIELDS for the hydration alone: every sequence of at most
\* MaxHydrate records, the unknown kind among them
HydrateCatalogue == <<RText, RImage, RLegacy, RUnknown>>

HydrateChoices ==
  UNION {{[i \in 1..n |-> HydrateCatalogue[pick[i]]] :
            pick \in [1..n -> 1..Len(HydrateCatalogue)]} : n \in 0..MaxHydrate}

\* App.jsx: the transactions the wallet starts with (id and date left out)
InitialTxns == <<[type |-> "credit", amt |-> 100, desc |-> "Welcome bonus"],
                 [type |-> "debit", amt |-> 10, desc |-> "Template purchase"]>>

NameInputs == {"a", ""}
TextInputs == {"Hi"}
FontSizeInputs == {16}
ColorInputs == {"#00ff00"}
FontTokens == {"times"}
Alignments == {"right"}
Shapes == {"rect", "circle"}
SizeInputs == {80}
PositionInputs == {0, 30}
DragTargets == {<<Px(0), Px(0)>>, <<Px(70), Px(35)>>}
DragScales == {2}

\* how a save request can end: a JSON body (with or without status and
\* message), the JSON body null, a body that is not JSON, a network failure
Responses ==
  {[kind |-> "json", status |-> "ok", message |-> Undef],
   [kind |-> "json", status |-> "error", message |-> "Template not found"],
   [kind |-> "json", status |-> Undef, message |-> Undef],
   [kind |-> "null", status |-> Undef, message |-> Undef],
   [kind |-> "unparsable", status |-> Undef, message |-> Undef],
   [kind |-> "rejected", status |-> Undef, message |-> Undef]}

----------------------------------------------------------------------------
(* History variables that record the last committed mutation *)

NoCommit == [valid |-> FALSE, op |-> "init", pre |-> <<>>, post |-> <<>>,
             undoStack |-> <<>>, idle |-> TRUE, ulen |-> 0, rlen |-> 0]

CreateOps == {"addText", "addImagePlaceholder", "duplicateField", "setShape"}

\* the state T a handler or callback leaves becomes the next state
Becomes(T) ==
  /\ objects' = T.objects
  /\ bg' = T.bg
  /\ selected' = T.selected
  /\ panel' = T.panel
  /\ undoStack' = T.undoStack
  /\ redoStack' = T.redoStack
  /\ fieldCounter' = T.fieldCounter
  /\ pending' = T.pending
  /\ sent' = T.sent
  /\ fieldList' = T.fieldList
  /\ inflight' = T.inflight
  /\ notes' = T.notes
  /\ guides' = T.guides
  /\ existing' = existing
  /\ commits' = T.commits
  /\ zoomLevel' = T.zoomLevel
  /\ viewportZoom' = T.viewportZoom
  /\ UNCHANGED <<balance, txns, seenBalance, returned>>

\* the handler `op` runs and leaves the state T
Do(T, op) ==
  /\ Becomes(T)
  /\ onlyCreates' = (onlyCreates /\ op \in CreateOps)
  /\ hist' = IF Len(T.commits) > Len(commits)
             THEN [undos |-> hist.undos,
                   m |-> [valid |-> TRUE, op |-> op,
                          pre |-> toJSON(State).objects,
                          post |-> toJSON(T).objects,
                          undoStack |-> T.undoStack,
                          idle |-> (pending = <<>> /\ T.pending = <<>>),
                          ulen |-> Len(undoStack), rlen |-> Len(redoStack)],
                   since |-> <<>>]
             ELSE IF Len(hist.since) < HistWindow
             THEN [hist EXCEPT !.undos = hist.undos + (IF op = "undo" THEN 1 ELSE 0),
                               !.since = Append(hist.since,
                     [op |-> op, idle |-> pending = <<>>,
                      ulen |-> Len(undoStack), rlen |-> Len(redoStack)])]
             ELSE [hist EXCEPT !.undos = hist.undos + (IF op = "undo" THEN 1 ELSE 0),
                               !.since[HistWindow] =
                     [op |-> "more", idle |-> FALSE, ulen |-> 0, rlen |-> 0]]

\* the latest handler run was an update of a move gesture
LastMoved == hist.since # <<>> /\ hist.since[Len(hist.since)].op = "objectMoving"

\* a user event: one handler run, counted
User(T, op) == steps < MaxSteps /\ steps' = steps + 1 /\ Do(T, op)

----------------------------------------------------------------------------
(* Initial state: window.onload, the background image has loaded and       *)
(* loadExistingFields has run                                              *)

\* the session starts in the state S, with EXISTING_FIELDS as given
Boot(S, EXISTING_FIELDS) ==
       /\ objects = S.objects
       /\ bg = S.bg
       /\ selected = S.selected
       /\ panel = S.panel
       /\ undoStack = S.undoStack
       /\ redoStack = S.redoStack
       /\ fieldCounter = S.fieldCounter
       /\ pending = S.pending
       /\ sent = S.sent
       /\ fieldList = S.fieldList
       /\ inflight = S.inflight
       /\ notes = S.notes
       /\ guides = S.guides
       /\ existing = EXISTING_FIELDS
       /\ commits = S.commits
       /\ zoomLevel = S.zoomLevel
       /\ viewportZoom = S.viewportZoom
       /\ balance = InitialBalance
       /\ txns = InitialTxns
       /\ seenBalance = InitialBalance
       /\ returned = "none"
       /\ hist = [undos |-> 0, m |-> NoCommit, since |-> <<>>]
       /\ onlyCreates = TRUE
       /\ steps = 0

Init ==
  \E EXISTING_FIELDS \in ExistingChoices :
    Boot(loadExistingFields(Fresh, EXISTING_FIELDS), EXISTING_FIELDS)

----------------------------------------------------------------------------
(* Actions: one per handler *)

AddText == User(createTextField(State, <<>>), "addText")

AddImagePlaceholder == User(createImageField(State, <<>>), "addImagePlaceholder")

\* a click on an object, or selectFieldByIndex from the layer list
Select == \E i \in 1..Len(objects) :
            /\ objects[i].oid # selected
            /\ User(setActiveObject(State, objects[i].oid), "select")

\* a click on the empty canvas
Deselect == selected # 0 /\ User(discardActiveObject(State), "deselect")

\* the inputs and buttons below belong to the property panel: the user can
\* reach them only while the panel of that kind is shown

UpdateFieldName ==
  /\ panel.shown # "none"
  /\ \E v \in NameInputs : User(updateFieldName(State, v), "updateFieldName")

UpdateTextContent ==
  /\ panel.shown = "text"
  /\ \E v \in TextInputs : User(updateTextContent(State, v), "updateTextContent")

UpdateFontSize ==
  /\ panel.shown = "text"
  /\ \E v \in FontSizeInputs : User(updateFontSize(State, v), "updateFontSize")

UpdateColor ==
  /\ panel.shown = "text"
  /\ \E v \in ColorInputs : User(updateColor(State, v), "updateColor")

UpdateFontFamily ==
  /\ panel.shown = "text"
  /\ \E v \in FontTokens : User(updateFontFamily(State, v), "updateFontFamily")

SetAlignment ==
  /\ panel.shown = "text"
  /\ \E v \in Alignments : User(setAlignment(State, v), "setAlignment")

\* the user types v into the width or the height input of the panel
UpdateImageSize ==
  /\ panel.shown = "image"
  /\ \E v \in SizeInputs, k \in {"w", "h"} :
       User(updateImageSize([State EXCEPT !.panel[k] = v]), "updateImageSize")

SetShape ==
  /\ panel.shown = "image"
  /\ \E v \in Shapes : User(setShape(State, v), "setShape")

\* the user types v into the X or the Y input of the panel
UpdatePosition ==
  /\ panel.shown # "none"
  /\ \E v \in PositionInputs, k \in {"x", "y"} :
       User(updatePosition([State EXCEPT !.panel[k] = v]), "updatePosition")

DuplicateField == User(duplicateField(State), "duplicateField")

DeleteField == User(deleteField(State), "deleteField")

\* object:modified: the end of a drag that moved or resized the active object
ObjectModified ==
  /\ selected # 0
  /\ \/ \E to \in DragTargets :
          LET o == Sel(State)  upd == [o EXCEPT !.left = to[1], !.top = to[2]]
          IN User(saveState(SetObj(State, selected, upd)), "objectModified")
     \/ \E sc \in DragScales :
          LET o == Sel(State)  upd == [o EXCEPT !.scaleX = sc, !.scaleY = sc]
          IN User(saveState(SetObj(State, selected, upd)), "objectModified")

Undo == User(undo(State), "undo")

Redo == User(redo(State), "redo")

SaveTemplate == User(saveTemplate(State), "saveTemplate")

\* the background image of the oldest pending loadFromJSON has loaded
LoadDone ==
  /\ pending # <<>>
  /\ steps' = steps
  /\ Do(loadCallback([State EXCEPT !.pending = Tail(pending)], Head(pending)), "load")

Next ==
  \/ AddText \/ AddImagePlaceholder \/ Select \/ Deselect
  \/ UpdatePosition \/ UpdateFieldName \/ UpdateTextContent \/ UpdateFontSize
  \/ UpdateColor \/ UpdateFontFamily \/ SetAlignment \/ UpdateImageSize
  \/ SetShape \/ DuplicateField \/ DeleteField \/ ObjectModified
  \/ Undo \/ Redo \/ SaveTemplate \/ LoadDone

Spec == Init /\ [][Next]_vars

----------------------------------------------------------------------------
(* A long editing session: one field is nudged to the right with the       *)
(* spinner of the X input, edit after edit, with undo and redo in between. *)
(* It is the session in which the history reaches its cap.                 *)

InitLong == Init /\ Len(objects) = 1

\* a handler run that commits nothing; few of them between two edits
Idle(T, op) == Len(hist.since) < MaxLongIdle /\ steps' = steps /\ Do(T, op)

\* one click on the spinner of the X input: its value goes up by one
NudgeX ==
  /\ panel.shown # "none"
  /\ steps < MaxLongSteps
  /\ steps' = steps + 1
  /\ Do(updatePosition([State EXCEPT !.panel.x = panel.x + 1]), "updatePosition")

SelectLong == /\ selected = 0 /\ pending = <<>>
              /\ Idle(setActiveObject(State, objects[1].oid), "select")

UndoLong == hist.undos < MaxLongUndo /\ Idle(undo(State), "undo")

RedoLong == redoStack # <<>> /\ Idle(redo(State), "redo")

LoadDoneLong == pending # <<>> /\ LoadDone

NextLong == NudgeX \/ SelectLong \/ UndoLong \/ RedoLong \/ LoadDoneLong

SpecLong == InitLong /\ [][NextLong]_vars

----------------------------------------------------------------------------
(* Hydration: the session from before the template image has loaded, for   *)
(* every EXISTING_FIELDS of HydrateChoices.                                *)

InitHydrate == \E EXISTING_FIELDS \in HydrateChoices : Boot(Fresh, EXISTING_FIELDS)

\* the callback of fabric.Image.fromURL: the background is set and
\* loadExistingFields runs
BackgroundLoaded ==
  /\ ~hist.m.valid /\ hist.since = <<>>
  /\ steps' = steps
  /\ Do(loadExistingFields(State, existing), "hydrate")

NextHydrate == BackgroundLoaded \/ Select \/ Deselect \/ DeleteField

SpecHydrate == InitHydrate /\ [][NextHydrate]_vars

----------------------------------------------------------------------------
(* Kind-exclusive handlers called while their part of the panel is not     *)
(* shown: a field of the other kind, or none, is active.                   *)

StrayTextEdit ==
  /\ panel.shown # "text"
  /\ \/ \E v \in TextInputs : User(updateTextContent(State, v), "updateTextContent")
     \/ \E v \in FontSizeInputs : User(updateFontSize(State, v), "updateFontSize")
     \/ \E v \in ColorInputs : User(updateColor(State, v), "updateColor")
     \/ \E v \in FontTokens : User(updateFontFamily(State, v), "updateFontFamily")
     \/ \E v \in Alignments : User(setAlignment(State, v), "setAlignment")

StrayImageEdit ==
  /\ panel.shown # "image"
  /\ \/ User(updateImageSize(State), "updateImageSize")
     \/ \E v \in Shapes : User(setShape(State, v), "setShape")

NextKinds == Select \/ Deselect \/ StrayTextEdit \/ StrayImageEdit

SpecKinds == Init /\ [][NextKinds]_vars

----------------------------------------------------------------------------
(* Snapping Engine.  builder.js registers no handler for the move gesture; *)
(* the engine is modelled from section 4.4 of the specification.           *)

SnapTolerance == 6

Abs(n) == IF n < 0 THEN 0 - n ELSE n

\* the scaled width and height of an object, in pixels
ScaledW(o) == (IF o.type = "circle" THEN o.diameter ELSE o.width) * o.scaleX
ScaledH(o) == (IF o.type = "circle" THEN o.diameter ELSE o.height) * o.scaleY

\* a snap whose tolerance includes the bound
snapInclusive(S) ==
  IF S.selected = 0 THEN S
  ELSE LET o == Sel(S)
           nearX == Abs(o.left + ScaledW(o) - CanvasW) <= Px(SnapTolerance)
           nearY == Abs(o.top + ScaledH(o) - CanvasH) <= Px(SnapTolerance)
           snapped == [o EXCEPT !.left = IF nearX THEN CanvasW - ScaledW(o) ELSE @,
                                !.top = IF nearY THEN CanvasH - ScaledH(o) ELSE @]
       IN [SetObj(S, S.selected, snapped) EXCEPT
             !.guides = [v |-> IF nearX THEN 1 ELSE 0, h |-> IF nearY THEN 1 ELSE 0]]

\* one update of the move gesture: the center of the dragged object is
\* compared with the center of the canvas, axis by axis; within the tolerance
\* the object is centered on the axis and the guide of the axis is created
\* if there is none, otherwise the guide of the axis is removed
snap(S) ==
  IF S.selected = 0 THEN S
  ELSE LET o == Sel(S)
           nearX == Abs(o.left + ScaledW(o) - CanvasW) < Px(SnapTolerance)
           nearY == Abs(o.top + ScaledH(o) - CanvasH) < Px(SnapTolerance)
           snapped == [o EXCEPT !.left = IF nearX THEN CanvasW - ScaledW(o) ELSE @,
                                !.top = IF nearY THEN CanvasH - ScaledH(o) ELSE @]
       IN [SetObj(S, S.selected, snapped) EXCEPT
             !.guides = [v |-> IF nearX THEN (IF S.guides.v = 0 THEN 1 ELSE S.guides.v)
                               ELSE 0,
                         h |-> IF nearY THEN (IF S.guides.h = 0 THEN 1 ELSE S.guides.h)
                               ELSE 0]]

\* where the pointer takes the center of the dragged object: offsets from the
\* center of the canvas, in pixels
SnapOffsets == {0 - SnapTolerance, 1 - SnapTolerance, 2, SnapTolerance + 4}

\* left / top that put the center of o at the offset (dx, dy) from the center
RawLeft(o, dx) == CanvasW - ScaledW(o) + Px(dx)
RawTop(o, dy) == CanvasH - ScaledH(o) + Px(dy)

\* a move-gesture update that takes the center of the active object to the
\* offset (dx, dy), then the snapping
MovingTo(dx, dy) ==
  /\ selected # 0
  /\ LET o == Sel(State)
         moved == [o EXCEPT !.left = RawLeft(o, dx), !.top = RawTop(o, dy)]
     IN User(snap(SetObj(State, selected, moved)), "objectMoving")

ObjectMoving == \E dx \in SnapOffsets, dy \in SnapOffsets : MovingTo(dx, dy)

\* the pointer is released: object:modified
DragEnd == LastMoved /\ User(saveState(State), "objectModified")

\* a resize gesture ends: object:modified
ResizeEnd ==
  /\ selected # 0
  /\ \E sc \in DragScales :
       LET o == Sel(State)  upd == [o EXCEPT !.scaleX = sc, !.scaleY = sc]
       IN User(saveState(SetObj(State, selected, upd)), "objectModified")

NextSnap == Select \/ ObjectMoving \/ DragEnd \/ ResizeEnd

SpecSnap == Init /\ [][NextSnap]_vars

----------------------------------------------------------------------------
(* Saving: the session with the network and the callbacks of the save      *)
(* requests.  The network settles a request when and how it likes, or      *)
(* never; the callbacks of a settled request run as the event loop gets to *)
(* them.                                                                   *)

\* the network settles a pending request
Respond ==
  \E i \in 1..Len(inflight), r \in Responses :
    /\ inflight[i] = Pending
    /\ Becomes([State EXCEPT !.inflight[i] = r])
    /\ UNCHANGED <<hist, onlyCreates, steps>>

\* the callbacks of a settled request run
SaveSettled ==
  \E i \in 1..Len(inflight) :
    /\ inflight[i] # Pending
    /\ Becomes(saveSettled(State, i))
    /\ UNCHANGED <<hist, onlyCreates, steps>>

\* the save requests issued so far
Issued == Len(notes) + Len(inflight)

\* Ctrl+S, or the Save button
SaveRequest == Issued < MaxSaves /\ SaveTemplate

NextSave ==
  \/ AddText \/ Select \/ Deselect \/ DeleteField \/ Undo \/ Redo \/ LoadDone
  \/ SaveRequest \/ Respond \/ SaveSettled

SpecSave == Init /\ [][NextSave]_vars /\ WF_vars(SaveSettled) /\ WF_vars(LoadDone)


----------------------------------------------------------------------------
(* Zoom controls.  zoomLevel is a binary floating-point number: the sum    *)
(* zoomLevel + 0.1 is the exact one up to a rounding error, which is taken *)
(* here as any value of ZoomRounding; Math.min and Math.max are exact.     *)

ZoomRounding == {0 - 1, 0, 1}

Max(a, b) == IF a >= b THEN a ELSE b

\* a zoom that also rescales the objects of the scene
applyZoomScalesObjects(S) ==
  [S EXCEPT !.viewportZoom = S.zoomLevel,
            !.objects = [i \in 1..Len(S.objects) |->
               [S.objects[i] EXCEPT !.left = (S.objects[i].left * S.zoomLevel) \div ZoomOne,
                                    !.top = (S.objects[i].top * S.zoomLevel) \div ZoomOne]]]

\* canvas.setZoom(zoomLevel)
applyZoom(S) == [S EXCEPT !.viewportZoom = S.zoomLevel]

\* a zoom in without the upper limit
zoomInUnclamped(S, e) == applyZoom([S EXCEPT !.zoomLevel = S.zoomLevel + ZoomStep + e])

zoomIn(S, e) ==
  applyZoom([S EXCEPT !.zoomLevel = Min(S.zoomLevel + ZoomStep + e, ZoomMax)])

zoomOut(S, e) ==
  applyZoom([S EXCEPT !.zoomLevel = Max(S.zoomLevel - ZoomStep + e, ZoomMin)])

resetZoom(S) == applyZoom([S EXCEPT !.zoomLevel = ZoomOne])

\* a click on a zoom button: no history entry, no limit on their number
ZoomIn ==
  \E e \in ZoomRounding :
    /\ Becomes(zoomIn(State, e))
    /\ UNCHANGED <<hist, onlyCreates, steps>>

ZoomOut ==
  \E e \in ZoomRounding :
    /\ Becomes(zoomOut(State, e))
    /\ UNCHANGED <<hist, onlyCreates, steps>>

ResetZoom ==
  /\ Becomes(resetZoom(State))
  /\ UNCHANGED <<hist, onlyCreates, steps>>

NextZoom == \/ ZoomIn \/ ZoomOut \/ ResetZoom
            \/ Select \/ Deselect \/ SaveTemplate \/ Undo \/ LoadDone

SpecZoom == Init /\ [][NextZoom]_vars

----------------------------------------------------------------------------
(* The wallet of the front end (frontend/src/App.jsx).  The functions      *)
(* addFunds and deduct of one render close over that render's `balance`;   *)
(* setBalance and setTxns queue functional updaters, which React applies   *)
(* in order when it renders again.                                         *)

Wallet == [balance |-> balance, txns |-> txns, returned |-> returned]

addFunds(W, amt) ==
  [W EXCEPT !.balance = W.balance + amt,
            !.txns = <<[type |-> "credit", amt |-> amt, desc |-> "Funds added"]>> \o W.txns]

\* `seen` is the `balance` of the render whose deduct is called
deduct(W, seen, amt, desc) ==
  IF seen >= amt
  THEN [W EXCEPT !.balance = W.balance - amt,
                 !.txns = <<[type |-> "debit", amt |-> amt, desc |-> desc]>> \o W.txns,
                 !.returned = "true"]
  ELSE [W EXCEPT !.returned = "false"]

\* the preset amounts of the Wallet page that are explored
AddAmounts == {25}

\* the deduct calls of the pages: Use on a template with a price, Generate
DeductCalls == {[amt |-> 10, desc |-> "Template: Real Estate"],
                [amt |-> GenerationPrice, desc |-> "Banner generation"]}

Count(type) == Cardinality({i \in 1..Len(txns) : txns[i].type = type})

WalletBecomes(W) ==
  /\ balance' = W.balance
  /\ txns' = W.txns
  /\ returned' = W.returned
  /\ UNCHANGED <<objects, bg, selected, panel, undoStack, redoStack,
                 fieldCounter, pending, sent, fieldList, inflight, notes,
                 guides, existing, commits, zoomLevel, viewportZoom, hist,
                 onlyCreates, steps>>

AddFunds ==
  /\ Count("credit") < 1 + MaxAdds
  /\ \E amt \in AddAmounts : WalletBecomes(addFunds(Wallet, amt))
  /\ UNCHANGED seenBalance

DeductCall(call) ==
  /\ Count("debit") < 1 + MaxDeducts
  /\ WalletBecomes(deduct(Wallet, seenBalance, call.amt, call.desc))
  /\ UNCHANGED seenBalance

Deduct == \E call \in DeductCalls : DeductCall(call)

\* React renders the provider again: the queued updates become the
\* `balance` that the new closures see
Render ==
  /\ seenBalance # balance
  /\ seenBalance' = balance
  /\ WalletBecomes(Wallet)

NextWallet == AddFunds \/ Deduct \/ Render

\* the wallet does not depend on the builder: one session, without fields
InitWallet == Init /\ Len(existing) = 0

SpecWallet == InitWallet /\ [][NextWallet]_vars

----------------------------------------------------------------------------
(* Vocabulary of the properties *)

\* the serialized content of the live field set
Scene == toJSON(State).objects

\* the handlers run since the latest committed mutation m, restores' load
\* callbacks left out
UserOpsSince ==
  LET users == SelectSeq(hist.since, LAMBDA e : e.op # "load")
  IN [i \in 1..Len(users) |-> users[i].op]

\* the user events since m were each issued with no restore in flight
Sequential == \A i \in 1..Len(hist.since) :
                hist.since[i].op # "load" => hist.since[i].idle

\* m was committed with no restore in flight, the handlers `ops` ran right
\* after it, one after the other, and every restore has completed
RightAfterM(ops) ==
  /\ hist.m.valid /\ hist.m.idle
  /\ Sequential
  /\ UserOpsSince = ops
  /\ pending = <<>>

LastOp == IF hist.since = <<>> THEN hist.m.op ELSE hist.since[Len(hist.since)].op

\* the state is the one a handler `op` has just left, called with the stacks
\* at the lengths ulen and rlen
JustRan(op, ulen, rlen) ==
  /\ hist.since # <<>>
  /\ LET e == hist.since[Len(hist.since)]
     IN e.op = op /\ e.ulen = ulen /\ e.rlen = rlen

----------------------------------------------------------------------------
\* C1: for every mutation m committed via saveState, undo() called right
\* after m restores the live field set to the serialized content it had
\* before m.
C1_UndoRestoresPreState ==
  RightAfterM(<<"undo">>) => Scene = hist.m.pre

\* C2: undo() then redo() right after a committed mutation m restores the
\* live field set to its content after m, leaves undoStack as it was before
\* the undo() and leaves redoStack without the redone entry.
C2_UndoRedoRestoresPostState ==
  RightAfterM(<<"undo", "redo">>) =>
    /\ Scene = hist.m.post
    /\ undoStack = hist.m.undoStack
    /\ redoStack = <<>>

\* a mutation was committed on a history of at least one entry, then undone
\* and redone, and the field set is not empty
C2_Witness ==
  /\ RightAfterM(<<"undo", "redo">>)
  /\ hist.m.ulen >= 1
  /\ Len(undoStack) >= 2
  /\ objects # <<>>


\* C3: every snapshot leaves redoStack empty; a redo() right after a
\* committed mutation, also one that followed undo() calls, changes neither
\* the field set nor the stacks: the undone states are out of reach.
C3_SnapshotClearsRedo ==
  /\ (hist.m.valid /\ hist.since = <<>>) => redoStack = <<>>
  /\ (hist.m.valid /\ Len(hist.since) = 1 /\ hist.since[1].op = "redo") =>
       /\ redoStack = <<>>
       /\ undoStack = hist.m.undoStack
       /\ Scene = hist.m.post

\* a mutation was committed while redoStack held an undone state, and redo()
\* was called after it
C3_Witness ==
  /\ hist.m.valid /\ hist.m.rlen >= 1
  /\ Len(hist.since) = 1 /\ hist.since[1].op = "redo"
  /\ objects # <<>>

\* C4: undo() with 0 or 1 entries in undoStack changes neither the field
\* set, the selection, the panel, undoStack nor redoStack and starts no
\* restore; and no undo() ever removes the bottom entry of undoStack.
C4_UndoUnderflowIsNoOp ==
  [][Undo => /\ Len(undoStack) <= 1 =>
                  UNCHANGED <<objects, bg, selected, panel, undoStack, redoStack, pending>>
             /\ undoStack # <<>> =>
                  (undoStack' # <<>> /\ undoStack'[1] = undoStack[1])]_vars

\* undo() has just been called on a history of one entry, with a field live
C4_Witness == JustRan("undo", 1, 0) /\ objects # <<>> /\ selected # 0

\* C5: redo() with an empty redoStack changes neither the field set, the
\* selection, the panel, undoStack nor redoStack and starts no restore.
C5_RedoUnderflowIsNoOp ==
  [][(Redo /\ redoStack = <<>>) =>
       UNCHANGED <<objects, bg, selected, panel, undoStack, redoStack, pending>>]_vars

\* redo() has just been called with nothing to redo, with a field selected
C5_Witness ==
  /\ \E n \in 1..(MaxSteps + MaxExisting) : JustRan("redo", n, 0)
  /\ objects # <<>> /\ selected # 0

----------------------------------------------------------------------------
\* C8: the identifiers of the fields that createTextField / createImageField
\* calls (hydration, toolbar adds, duplicates, shape changes) have produced
\* are pairwise distinct.  The name is the only identifier a field carries.
C8_IdentifiersDistinct ==
  onlyCreates =>
    \A i, j \in 1..Len(objects) :
      i # j => objects[i].fieldData.name # objects[j].fieldData.name

\* C9: hydrating the records that serialization produces yields a field set
\* with the same records: kind, x, y, width, height, shape, font_size,
\* color, font_family, align and field_name of every field.
Hydrated(records) == loadExistingFields(Fresh, records).objects

C9_RoundTrip ==
  SerializeFields(Hydrated(SerializeFields(objects))) = SerializeFields(objects)

\* C10: the save request holds one record per field of the scene, in scene
\* order; each record carries field_name, field_type, x and y, a text
\* field's record also font_size, color, font_family and align, an image
\* field's record also width, height and shape.
RecordOf(rec, obj) ==
  /\ {"field_name", "field_type", "x", "y"} \subseteq DOMAIN rec
  /\ rec.field_name = obj.fieldData.name
  /\ rec.field_type = obj.fieldData.type
  /\ obj.fieldData.type = "text" =>
       {"font_size", "color", "font_family", "align"} \subseteq DOMAIN rec
  /\ obj.fieldData.type = "image" =>
       {"width", "height", "shape"} \subseteq DOMAIN rec

C10_OneRecordPerField ==
  LastOp = "saveTemplate" =>
    /\ Len(sent) = Len(objects)
    /\ \A i \in 1..Len(objects) : RecordOf(sent[i], objects[i])

\* a save has just been issued on a scene with a text and an image field
C10_Witness ==
  /\ LastOp = "saveTemplate"
  /\ \E i, j \in 1..Len(objects) :
       /\ i < j
       /\ objects[i].fieldData.type = "text"
       /\ objects[j].fieldData.type = "image"


----------------------------------------------------------------------------
\* C6: in every reachable state, whatever committed mutations, undo() and
\* redo() calls came before, undoStack holds at most HistoryCap entries.
C6_UndoStackBounded == Len(undoStack) <= HistoryCap

\* a redo() has just put an entry back on a history that had overflowed
C6_Witness ==
  /\ Len(commits) > HistoryCap
  /\ Len(undoStack) = HistoryCap
  /\ JustRan("redo", HistoryCap - 1, 1)

\* C7: after more than HistoryCap committed mutations and no undo(),
\* undoStack holds the HistoryCap most recent snapshots in commit order; its
\* bottom entry is the snapshot at position total - cap of the commit order
\* (positions counted from 0).
C7_OldestEvicted ==
  (hist.undos = 0 /\ Len(commits) > HistoryCap) =>
    /\ undoStack = SubSeq(commits, Len(commits) - HistoryCap + 1, Len(commits))
    /\ undoStack[1] = commits[(Len(commits) - HistoryCap) + 1]

\* two snapshots have been evicted and no undo() was ever called
C7_Witness ==
  /\ hist.undos = 0
  /\ Len(commits) = HistoryCap + 2
  /\ undoStack[1] # commits[1]

----------------------------------------------------------------------------
\* C11: for every image field, rectangle or circle, whatever scale a resize
\* gesture has left on it, the width and height of its record in the save
\* request are its base size multiplied by its current scale factors.
C11_ResolvedDimensions ==
  LastOp = "saveTemplate" =>
    \A i \in 1..Len(objects) :
      objects[i].fieldData.type = "image" =>
        LET o == objects[i]
            baseW == IF o.type = "circle" THEN o.diameter ELSE o.width
            baseH == IF o.type = "circle" THEN o.diameter ELSE o.height
        IN /\ sent[i].width = baseW * o.scaleX
           /\ sent[i].height = baseH * o.scaleY

----------------------------------------------------------------------------
\* the response is { status: "ok" }
IsOk(r) == r.kind = "json" /\ r.status = "ok"

C13_SaveLeavesSessionUnaffected ==
  [][(SaveRequest \/ Respond \/ SaveSettled) =>
       /\ UNCHANGED <<objects, selected, undoStack, redoStack>>
       /\ Len(saveTemplate(State).inflight)' = Len(inflight') + 1]_vars

\* a save has failed and a further save has been issued, with a field
\* selected and a history to keep
C13_Witness ==
  /\ notes # <<>> /\ notes[1].type = "error"
  /\ inflight # <<>>
  /\ selected # 0 /\ undoStack # <<>>

\* C14: every issued save request eventually resolves to a notification,
\* also one whose request fails or never receives a response.
C14_SaveEventuallyNotifies ==
  \A n \in 1..MaxSaves : (Issued >= n) ~> (Len(notes) >= n)

----------------------------------------------------------------------------
\* the records of a kind the builder knows, in their order
Known(recs) ==
  SelectSeq(recs, LAMBDA f : OrS(f, "field_type", "text") \in {"text", "image"})

----------------------------------------------------------------------------
----------------------------------------------------------------------------
\* C17: when a move-gesture update leaves the center of the dragged field
\* less than the tolerance away from the center line of the canvas on an
\* axis, the field ends exactly centered on that axis and the guide of that
\* axis exists; when it is the tolerance or more away, the position on that
\* axis is the dragged one and no guide of that axis exists; there is never
\* more than one guide per axis.
C17_SnapToCenter ==
  [][/\ guides'.v <= 1 /\ guides'.h <= 1
     /\ \A dx \in SnapOffsets, dy \in SnapOffsets :
          MovingTo(dx, dy) =>
            LET before == Sel(State)
                after == Sel(State)'
            IN /\ IF Abs(dx) < SnapTolerance
                  THEN after.left + ScaledW(after) = CanvasW /\ guides'.v = 1
                  ELSE after.left = RawLeft(before, dx) /\ guides'.v = 0
               /\ IF Abs(dy) < SnapTolerance
                  THEN after.top + ScaledH(after) = CanvasH /\ guides'.h = 1
                  ELSE after.top = RawTop(before, dy) /\ guides'.h = 0]_vars

\* a resized field has been dragged, in two updates, to within the
\* tolerance of the vertical center line and exactly the tolerance away
\* from the horizontal one
C17_Witness ==
  /\ Len(hist.since) >= 2
  /\ hist.since[Len(hist.since) - 1].op = "objectMoving"
  /\ LastMoved
  /\ selected # 0
  /\ Sel(State).scaleX = 2
  /\ Sel(State).left + ScaledW(Sel(State)) = CanvasW
  /\ Sel(State).top + ScaledH(Sel(State)) = CanvasH - Px(SnapTolerance)
  /\ guides = [v |-> 1, h |-> 0]

----------------------------------------------------------------------------
\* C18: after every operation the Layer List holds exactly one entry per
\* field of the scene, in scene order, showing that field's current name and
\* kind.
C18_LayerListShowsNames ==
  fieldList = [i \in 1..Len(objects) |->
                 [name |-> objects[i].fieldData.name,
                  type |-> objects[i].fieldData.type]]

\* C18, amended: after every operation the Layer List holds exactly one
\* entry per field of the scene, in scene order, showing that field's kind
\* and its current name, or "Field <position>" when the name is empty.
C18_LayerListIsProjection ==
  fieldList = [i \in 1..Len(objects) |->
                 [name |-> IF objects[i].fieldData.name = ""
                           THEN "Field " \o ToString(i)
                           ELSE objects[i].fieldData.name,
                  type |-> objects[i].fieldData.type]]

\* the second of two fields has just been renamed
C18_Witness ==
  /\ LastOp = "updateFieldName"
  /\ Len(objects) = 2
  /\ selected = objects[2].oid
  /\ fieldList[2].name = "a"
  /\ fieldList[1].name # "a"

----------------------------------------------------------------------------
\* C19: whenever the selection is cleared or the active field is deleted the
\* selection state machine is back in Idle: after clearSelection or
\* deleteField no field is selected and the property panel shows its
\* placeholder; and the panel shows the placeholder whenever no field is
\* selected.
C19_ClearedSelectionIsIdle ==
  [][/\ (Deselect \/ DeleteField) => (selected' = 0 /\ panel' = NoPanel)
     /\ selected' = 0 => panel' = NoPanel]_vars

\* the active field, one of two, has just been deleted
C19_Witness ==
  /\ hist.m.valid /\ hist.m.op = "deleteField" /\ hist.since = <<>>
  /\ Len(hist.m.pre) = 2 /\ Len(objects) = 1
  /\ selected = 0 /\ panel = NoPanel

----------------------------------------------------------------------------
\* the latest two handler runs are an undo() or redo() that started a
\* restore, issued with no restore in flight, and the load callback of that
\* restore
RestoreCompleted ==
  /\ pending = <<>>
  /\ Len(hist.since) >= 2
  /\ hist.since[Len(hist.since)].op = "load"
  /\ LET e == hist.since[Len(hist.since) - 1]
     IN e.op \in {"undo", "redo"} /\ e.idle

\* C20: once a restore started by undo() or redo() has completed, the live
\* field set is the field set of the restored snapshot, the snapshot now on
\* top of undoStack, and no field is selected, whatever was selected before.
C20_RestoreReplacesAndDeselects ==
  RestoreCompleted =>
    /\ Scene = undoStack[Len(undoStack)].objects
    /\ selected = 0
    /\ panel = NoPanel

\* a field was added, which selected it, and the addition has been undone
C20_Witness ==
  /\ RestoreCompleted
  /\ hist.m.valid /\ hist.m.op = "addText"
  /\ UserOpsSince = <<"undo">>
  /\ objects # <<>>

----------------------------------------------------------------------------
\* C21: every committed mutation (a toolbar add, deleteField of a selected
\* field, the end of a drag or resize, a property edit applied to a selected
\* field of the matching kind) pushes exactly one snapshot onto undoStack,
\* and that snapshot is the live field set as it is after the mutation.
C21_OneSnapshotPerMutation ==
  [][(\/ AddText \/ AddImagePlaceholder \/ (DeleteField /\ selected # 0)
      \/ ObjectModified \/ UpdateFieldName \/ UpdateTextContent
      \/ UpdateFontSize \/ UpdateColor \/ UpdateFontFamily \/ SetAlignment
      \/ UpdateImageSize \/ UpdatePosition) =>
       /\ Len(undoStack') = Len(undoStack) + 1
       /\ SubSeq(undoStack', 1, Len(undoStack)) = undoStack
       /\ undoStack'[Len(undoStack')].objects = Scene']_vars

\* the color of the first of two fields has just been edited
C21_Witness ==
  /\ hist.m.valid /\ hist.m.op = "updateColor" /\ hist.since = <<>>
  /\ Len(objects) = 2
  /\ selected = objects[1].oid
  /\ hist.m.post # hist.m.pre

----------------------------------------------------------------------------
----------------------------------------------------------------------------
\* C23: setShape preserves the field's name, position (x, y) and size
\* (width, height) for every position and size, also for x = 0 or y = 0 and
\* for a width different from the height; only the shape differs afterwards.
C23_SetShapeKeepsGeometry ==
  [][SetShape =>
       LET before == FieldRecord(Sel(State))
           after == FieldRecord(Sel(State))'
       IN \E shape \in Shapes : after = [before EXCEPT !.shape = shape]]_vars

----------------------------------------------------------------------------
\* C24: a shape change counts as one history snapshot: setShape on a selected
\* image field grows undoStack by exactly one entry (below the cap), that
\* entry holds the rebuilt field and no entry holds the scene with the field
\* removed, and a single undo() restores the field with its previous shape.
C24_SetShapeIsOneSnapshot ==
  /\ [][SetShape =>
          /\ undoStack' = Append(undoStack, toJSON(State)')
          /\ Len(Scene') = Len(Scene)]_vars
  /\ []((RightAfterM(<<"undo">>) /\ hist.m.op = "setShape") => Scene = hist.m.pre)

\* a rectangle was turned into a circle and one undo() brought it back
C24_Witness ==
  /\ RightAfterM(<<"undo">>) /\ hist.m.op = "setShape"
  /\ \E i \in 1..Len(objects) :
       /\ objects[i].fieldData.type = "image"
       /\ objects[i].fieldData.shape = "rect"
       /\ hist.m.post[Len(hist.m.post)].fieldData.shape = "circle"
       /\ hist.m.post[Len(hist.m.post)].fieldData.name = objects[i].fieldData.name

----------------------------------------------------------------------------
\* C25: deleteField removes exactly the selected field: every other field
\* stays with unchanged attributes and in unchanged relative order, and the
\* Layer List shows exactly the remaining fields; with nothing selected
\* deleteField changes nothing and pushes no snapshot.
C25_DeleteRemovesOnlySelected ==
  [][DeleteField =>
       IF selected = 0
       THEN /\ UNCHANGED <<objects, fieldList, undoStack, redoStack, panel,
                           selected, commits>>
       ELSE /\ objects' = SeqRemove(objects, IndexOf(State, selected))
            /\ fieldList' = [j \in 1..Len(objects') |-> FieldEntry(objects'[j], j)]
            /\ Len(undoStack') = Len(undoStack) + 1]_vars

\* the first of two fields has just been deleted and the Layer List shows
\* exactly the second
C25_Witness ==
  /\ hist.m.valid /\ hist.m.op = "deleteField" /\ hist.since = <<>>
  /\ Len(hist.m.pre) = 2
  /\ Len(objects) = 1
  /\ toObject(objects[1]) = hist.m.pre[2]
  /\ fieldList = <<FieldEntry(objects[1], 1)>>

----------------------------------------------------------------------------
\* C26: whenever a field is selected, the property panel shows the sub-panel
\* of that field's kind and its values equal the field's current attributes;
\* in particular its position (and, for an image field, size) values equal
\* the field's current geometry, also after a drag gesture moved or resized
\* the field while it was selected.
C26_PanelShowsSelectedField ==
  (selected # 0 /\ HasObj(State, selected)) =>
     LET o == Sel(State)
     IN /\ panel.shown = o.fieldData.type
        /\ panel.x = MathRound(o.left)
        /\ panel.y = MathRound(o.top)
        /\ (o.fieldData.type = "image" =>
              panel.w = PanelW(o) /\ panel.h = PanelH(o))

----------------------------------------------------------------------------
\* C27: in every reachable state the selection is either none or exactly one
\* field currently present in the scene: after delete, shape change, undo and
\* redo, `selected` never refers to an object removed from the scene.
C27_SelectionIsInScene ==
  selected = 0 \/ Cardinality({i \in 1..Len(objects) : objects[i].oid = selected}) = 1

\* a shape change has replaced the selected object: the selection is the
\* rebuilt field, and the object it replaced is gone
C27_Witness ==
  /\ hist.m.valid /\ hist.m.op = "setShape" /\ hist.since = <<>>
  /\ Len(objects) = 2
  /\ selected = objects[2].oid
  /\ hist.m.pre # hist.m.post

----------------------------------------------------------------------------
\* the scene of the fully hydrated session
HydratedScene == toJSON(loadExistingFields(Fresh, existing)).objects

\* C28: the fully hydrated field set is the history baseline: after session
\* start and before any committed user action, undo() is a no-op, and no
\* sequence of undo() calls shows a field set that holds only part of the
\* hydrated records.
C28_HydratedSetIsBaseline ==
  (/\ ~hist.m.valid
   /\ \A i \in 1..Len(hist.since) : hist.since[i].op \in {"undo", "load"}
   /\ pending = <<>>) => Scene = HydratedScene

----------------------------------------------------------------------------
\* C29: a color edit reaches the persisted record and nothing else: when the
\* color of a text field is set to c in the property panel and the template
\* is then saved, the saved record of that field has color c and the name,
\* field_type text, x, y and font_size (and every other attribute) the field
\* had, and the records of all other fields are unchanged.
C29_ColorEditReachesRecord ==
  (/\ hist.m.valid /\ hist.m.op = "updateColor"
   /\ Len(hist.since) = 1 /\ hist.since[1].op = "saveTemplate") =>
     LET before == SerializeFields(hist.m.pre)
     IN \E i \in 1..Len(before), c \in ColorInputs :
          /\ objects[i].oid = selected
          /\ before[i].field_type = "text"
          /\ sent = [before EXCEPT ![i].color = c]

\* the hydrated field 'text_1', created at (50, 40) with font size 24 and
\* color #ff0000, was recolored and saved next to an untouched image field
C29_Witness ==
  /\ hist.m.valid /\ hist.m.op = "updateColor"
  /\ Len(hist.since) = 1 /\ hist.since[1].op = "saveTemplate"
  /\ Len(sent) = 2
  /\ sent[1].field_name = RText.field_name /\ sent[1].field_type = "text"
  /\ sent[1].x = RText.x /\ sent[1].y = RText.y
  /\ sent[1].font_size = RText.font_size
  /\ sent[1].color \in ColorInputs /\ sent[1].color # RText.color
  /\ sent[2] = SerializeFields(hist.m.pre)[2]

----------------------------------------------------------------------------
\* C30: at every point of any sequence of committed mutations, undo() and
\* redo() calls, undoStack and redoStack together hold at most HistoryCap
\* entries; undo() and redo() each preserve that combined number.
C30_CombinedHistoryBounded ==
  /\ [](Len(undoStack) + Len(redoStack) <= HistoryCap)
  /\ [][(UndoLong \/ RedoLong) =>
          Len(undoStack') + Len(redoStack') = Len(undoStack) + Len(redoStack)]_vars

\* an undo() has just moved an entry of a full, overflowed history to redoStack
C30_Witness ==
  /\ Len(commits) > HistoryCap
  /\ JustRan("undo", HistoryCap, 0)
  /\ Len(undoStack) = HistoryCap - 1
  /\ Len(redoStack) = 1

----------------------------------------------------------------------------
\* C31: editing only the X input of the property panel changes only the
\* selected field's x: its y and every other attribute of that field and of
\* all other fields are unchanged, whatever drags and edits preceded the
\* input (symmetrically for the Y input).
C31_PositionInputChangesOneAxis ==
  [][UpdatePosition =>
       LET i == IndexOf(State, selected)
       IN \/ /\ panel'.y = panel.y
             /\ objects' = [objects EXCEPT ![i].left = Px(panel'.x)]
          \/ /\ panel'.x = panel.x
             /\ objects' = [objects EXCEPT ![i].top = Px(panel'.y)]]_vars

----------------------------------------------------------------------------
\* C32: restores do not race: after any sequence of undo() and redo() calls,
\* also calls and edits issued before an earlier restore's load callback has
\* run, once all pending restores have completed the live field set equals
\* the snapshot at the top of undoStack, and no snapshot ever records a
\* partially restored scene.
C32_RestoresDoNotRace ==
  /\ []((pending = <<>> /\ undoStack # <<>>) =>
          Scene = undoStack[Len(undoStack)].objects)
  /\ [][Len(commits') > Len(commits) => pending = <<>>]_vars

----------------------------------------------------------------------------
----------------------------------------------------------------------------
\* C34: zoom is presentation only: zoomIn, zoomOut and resetZoom leave every
\* field's x, y, width and height, the selection, undoStack and redoStack
\* unchanged, so the records produced by serialization are the same at every
\* zoom level.
C34_ZoomIsPresentationOnly ==
  [][(ZoomIn \/ ZoomOut \/ ResetZoom) =>
       /\ UNCHANGED <<objects, selected, panel, undoStack, redoStack, fieldList>>
       /\ SerializeFields(objects)' = SerializeFields(objects)]_vars

\* a scene of two fields, one of them selected, has been saved at a zoom
\* level other than 1
C34_Witness ==
  /\ viewportZoom # ZoomOne
  /\ selected # 0
  /\ Len(objects) = 2
  /\ LastOp = "saveTemplate"
  /\ sent = SerializeFields(objects)

----------------------------------------------------------------------------
\* C35: changing the shape of an image field keeps its place in the ordered
\* field sequence (z-order and Layer List position): the relative order of
\* all fields is the same after setShape as before.
C35_SetShapeKeepsOrder ==
  [][SetShape =>
       LET i == IndexOf(State, selected)
       IN /\ Len(objects') = Len(objects)
          /\ objects'[i].oid = selected'
          /\ \A j \in 1..Len(objects) : j # i => objects'[j] = objects[j]
          /\ Len(fieldList') = Len(fieldList)
          /\ \A j \in 1..Len(fieldList) : fieldList'[j].type = fieldList[j].type]_vars

----------------------------------------------------------------------------
\* the width and height of an image object as it appears: base size times scale
ResolvedW(o) == (IF o.type = "circle" THEN o.diameter ELSE o.width) * o.scaleX
ResolvedH(o) == (IF o.type = "circle" THEN o.diameter ELSE o.height) * o.scaleY

\* C36: duplicateField on a selected field appends exactly one new field of
\* the same kind with the same kind-specific attributes (text, font size,
\* color, font family, alignment for text; resolved width, height and shape
\* for image), positioned at (x + 20, y + 20); the original field is
\* unchanged, the copy becomes the selection, and exactly one snapshot is
\* pushed; with nothing selected it does nothing.
C36_DuplicateAppendsCopy ==
  [][DuplicateField =>
       IF selected = 0
       THEN UNCHANGED <<objects, selected, panel, undoStack, redoStack, fieldList>>
       ELSE LET o == Sel(State)
                c == objects'[Len(objects')]
            IN /\ objects' = Append(objects, c)
               /\ selected' = c.oid
               /\ Len(undoStack') = Len(undoStack) + 1
               /\ c.fieldData.type = o.fieldData.type
               /\ c.left = o.left + Px(DupOffset)
               /\ c.top = o.top + Px(DupOffset)
               /\ IF o.fieldData.type = "text"
                  THEN /\ c.text = o.text
                       /\ c.fontSize = o.fontSize
                       /\ c.fill = o.fill
                       /\ c.fontFamily = o.fontFamily
                       /\ c.fieldData.font_family = o.fieldData.font_family
                       /\ c.textAlign = o.textAlign
                       /\ c.fieldData.align = o.fieldData.align
                  ELSE /\ ResolvedW(c) = ResolvedW(o)
                       /\ ResolvedH(c) = ResolvedH(o)
                       /\ c.fieldData.shape = o.fieldData.shape]_vars

----------------------------------------------------------------------------
====
